---------------------------- MODULE Spec2Model ----------------------------
(***************************************************************************)
(* A model of tinyrange/gosqlite, the read-only SQLite file decoder of     *)
(* src/main.go (package gosqlite, lines 183-523).                          *)
(*                                                                         *)
(* Bytes are numbers 0..255.  A Go uint64 is the set of its set bit        *)
(* positions (a subset of 0..63), so that the full 64-bit width is kept.   *)
(* A BinaryReader (a Go byte slice) is [buf, len]: buf holds the bytes up  *)
(* to the slice's capacity, len is its length.  Go offsets are 0-based.    *)
(* An operation that can panic returns a record whose st is "panic".       *)
(***************************************************************************)
EXTENDS Integers, Sequences, FiniteSets, TLC

VARIABLES
    file,       \* the byte source handed to OpenDatabase
    img,        \* the page images the file was built from (ground truth)
    pageSize,   \* db.pageSize
    tables,     \* db.tables: name -> [rootPage, Sql]
    phase,      \* "init", "opening", "opened", "reading", "failed", "crashed"
    stack,      \* the active readPage calls, innermost last
    ret,        \* the value the innermost finished call returned
    rowIds,     \* Table.Read's rowIds map
    delivered,  \* the row callback's invocations in the current Read: the
                \* cell each was made for, the values passed, the value returned
    result,     \* what the last OpenDatabase / Table.Read returned
    reading,    \* the table the current Read is of
    probe       \* the input and output of a single decoder call

vars == <<file, img, pageSize, tables, phase, stack, ret, rowIds, delivered,
          result, reading, probe>>

walkerVars == <<file, img, pageSize, tables, phase, stack, ret, rowIds,
                delivered, result, reading>>

-----------------------------------------------------------------------------
(* Bit-level helpers *)

Byte == 0..255

BitsOf(b) == {k \in 0..7 : (b \div (2^k)) % 2 = 1}

RECURSIVE SumBits(_)
SumBits(S) ==
    IF S = {} THEN 0
    ELSE LET k == CHOOSE x \in S : TRUE IN (2^k) + SumBits(S \ {k})

\* x << n on a uint64: bits shifted past bit 63 are lost.
Shl(S, n) == {k + n : k \in S} \cap (0..63)

\* The Go conversions int(x), int64(x) of a uint64 that is used as an offset,
\* a length or a page number.  Every value of 2^24 or more (a negative int64
\* included) is far outside every buffer of the model and is one value here.
ToInt(S) == IF \E k \in S : k >= 24 THEN 2^24 ELSE SumBits(S)

Reversed(s) == [i \in 1..Len(s) |-> s[Len(s) + 1 - i]]

-----------------------------------------------------------------------------
(* BinaryReader *)

MkReader(bytes) == [buf |-> bytes, len |-> Len(bytes)]

Cap(r) == Len(r.buf)

\* r[off : off+n] is legal up to the capacity of r, not its length.
CanSlice(r, off, n) == off >= 0 /\ n >= 0 /\ off + n <= Cap(r)

\* r[off] is legal below the length of r.
CanIndex(r, off) == off >= 0 /\ off < r.len

read(r, off, n) ==
    IF CanSlice(r, off, n)
    THEN [st |-> "ok",
          r  |-> [buf |-> SubSeq(r.buf, off + 1, Cap(r)), len |-> n]]
    ELSE [st |-> "panic"]

\* binary.BigEndian.UintNN of a byte sequence.
BigEndian(bs) ==
    UNION {Shl(BitsOf(bs[i]), 8 * (Len(bs) - i)) : i \in 1..Len(bs)}

FixedRead(r, off, n, pad) ==
    IF CanSlice(r, off, n)
    THEN [st |-> "ok",
          val |-> BigEndian(SubSeq(r.buf, off + 1, off + n) \o pad)]
    ELSE [st |-> "panic"]

u8(r, off) ==
    IF CanIndex(r, off)
    THEN [st |-> "ok", val |-> BitsOf(r.buf[off + 1])]
    ELSE [st |-> "panic"]

u16(r, off) == FixedRead(r, off, 2, <<>>)

u32(r, off) == FixedRead(r, off, 4, <<>>)

u64(r, off) == FixedRead(r, off, 8, <<>>)

\* copy(b[:], r[off:off+3]) fills b[0..2] of a 4-byte array; b[3] stays 0.
u24(r, off) == FixedRead(r, off, 3, <<0>>)

\* copy(b[:], r[off:off+6]) fills b[0..5] of an 8-byte array.
u48(r, off) == FixedRead(r, off, 6, <<0, 0>>)

\* ret |= uint64(val & 0x7f) << (i*7), i the 0-based index in slice.
decodeVarint(off, slice) ==
    [st   |-> "ok",
     val  |-> UNION {Shl(BitsOf(slice[i]) \ {7}, 7 * (i - 1))
                     : i \in 1..Len(slice)},
     next |-> off + Len(slice)]

\* The scanning loop of varint: the number of bytes it settles on (i + 1
\* after the loop), -1 for the overflow return and -2 for a panic of r[off+i].
RECURSIVE VarintScan(_, _, _)
VarintScan(r, off, i) ==
    IF i = 9 THEN 10
    ELSE IF off + i >= r.len THEN -1
    ELSE IF off + i < 0 THEN -2
    ELSE IF r.buf[off + i + 1] < 128 THEN i + 1
    ELSE VarintScan(r, off, i + 1)

varint(r, off) ==
    LET n == VarintScan(r, off, 0) IN
    IF n = -1 THEN [st |-> "ok", val |-> {}, next |-> -1]
    ELSE IF n = -2 \/ ~CanSlice(r, off, n) THEN [st |-> "panic"]
    ELSE decodeVarint(off, Reversed(SubSeq(r.buf, off + 1, off + n)))

-----------------------------------------------------------------------------
(* The record decoder: the cell callback of Table.Read *)

\* Go values of type any.  All four kinds carry the same fields.
GoNil == [kind |-> "nil", bits |-> {}, bytes |-> <<>>]

GoUint64(w) == [kind |-> "uint64", bits |-> w, bytes |-> <<>>]

GoBytes(bs) == [kind |-> "bytes", bits |-> {}, bytes |-> bs]

GoString(bs) == [kind |-> "string", bits |-> {}, bytes |-> bs]

WordOf(n) == {k \in 0..23 : (n \div (2^k)) % 2 = 1}

AsUint64(res) ==
    IF res.st = "ok" THEN [st |-> "ok", val |-> GoUint64(res.val)] ELSE res

\* One iteration of "for _, typ := range types": the value and the width
\* the body cursor advances by.
DecodeValue(payload, off, typ) ==
    LET fixed(res, w) == AsUint64(res) @@ [width |-> w]
        len == (ToInt(typ) - (IF 0 \in typ THEN 13 ELSE 12)) \div 2
        sl == read(payload, off, len)
    IN
    IF typ = WordOf(0) THEN [st |-> "ok", val |-> GoNil, width |-> 0]
    ELSE IF typ = WordOf(1) THEN fixed(u8(payload, off), 1)
    ELSE IF typ = WordOf(2) THEN fixed(u16(payload, off), 2)
    ELSE IF typ = WordOf(3) THEN fixed(u24(payload, off), 3)
    ELSE IF typ = WordOf(4) THEN fixed(u32(payload, off), 4)
    ELSE IF typ = WordOf(5) THEN fixed(u48(payload, off), 6)
    ELSE IF typ = WordOf(6) THEN fixed(u64(payload, off), 8)
    ELSE IF typ = WordOf(8)
        THEN [st |-> "ok", val |-> GoUint64(WordOf(0)), width |-> 0]
    ELSE IF typ = WordOf(9)
        THEN [st |-> "ok", val |-> GoUint64(WordOf(1)), width |-> 0]
    ELSE IF ToInt(typ) >= 12
        THEN IF sl.st = "panic" THEN [st |-> "panic"]
             ELSE [st |-> "ok", width |-> len,
                   val |-> IF 0 \in typ
                           THEN GoString(SubSeq(sl.r.buf, 1, len))
                           ELSE GoBytes(SubSeq(sl.r.buf, 1, len))]
    ELSE [st |-> "err", err |-> "unknown value type"]

\* The loop that reads the serial types of the record header.
RECURSIVE ReadTypes(_, _, _, _)
ReadTypes(payload, payloadOff, hdrLen, types) ==
    IF payloadOff >= hdrLen
    THEN [st |-> "ok", types |-> types, next |-> payloadOff]
    ELSE LET t == varint(payload, payloadOff) IN
         IF t.st = "panic" THEN [st |-> "panic"]
         ELSE IF t.next = -1
              THEN [st |-> "err", err |-> "[inner] overflow reading page"]
         ELSE ReadTypes(payload, t.next, hdrLen, Append(types, t.val))

\* The loop that decodes one value per serial type.
RECURSIVE ReadValues(_, _, _, _, _)
ReadValues(payload, payloadOff, types, i, values) ==
    IF i > Len(types)
    THEN [st |-> "ok", values |-> values, next |-> payloadOff]
    ELSE LET d == DecodeValue(payload, payloadOff, types[i]) IN
         IF d.st # "ok" THEN d
         ELSE ReadValues(payload, payloadOff + d.width, types, i + 1,
                         Append(values, d.val))

\* The cell callback of Table.Read from "Read the cell header length" to
\* the call of cb: the decoded values, a returned error or a panic.
DecodeRecord(payload) ==
    LET h == varint(payload, 0) IN
    IF h.st = "panic" THEN [st |-> "panic"]
    ELSE IF h.next = -1
         THEN [st |-> "err", err |-> "[outer] overflow reading page"]
    ELSE IF ToInt(h.val) > payload.len
         THEN [st |-> "err", err |-> "hdrLen is longer than the payload"]
    ELSE LET t == ReadTypes(payload, h.next, ToInt(h.val), <<>>) IN
         IF t.st # "ok" THEN t
         ELSE ReadValues(payload, t.next, t.types, 1, <<>>)

-----------------------------------------------------------------------------
(* The file format's varint encoding (spec section 4.1), used to build the  *)
(* inputs: 7 bits per byte, most significant group first, the high bit set *)
(* on every byte but the last; a value of 2^56 or more takes 9 bytes, the  *)
(* 9th carrying 8 bits.                                                     *)

Field(v, lo, w) == SumBits({k - lo : k \in v \cap (lo..(lo + w - 1))})

TopBit(v) == IF v = {} THEN 0 ELSE CHOOSE k \in v : \A j \in v : j <= k

EncodedLen(v) ==
    IF \E k \in v : k >= 56 THEN 9 ELSE (TopBit(v) \div 7) + 1

EncodeVarint(v) ==
    LET n == EncodedLen(v) IN
    IF n = 9
    THEN [i \in 1..9 |->
            IF i = 9 THEN Field(v, 0, 8)
            ELSE 128 + Field(v, 8 + 7 * (8 - i), 7)]
    ELSE [i \in 1..n |->
            (IF i < n THEN 128 ELSE 0) + Field(v, 7 * (n - i), 7)]

-----------------------------------------------------------------------------
(* SQLiteDatabase: page fetch, page header, cells *)

\* "SQLite format 3\000", and "table"
Magic == <<83, 81, 76, 105, 116, 101, 32, 102, 111, 114, 109, 97, 116, 32, 51, 0>>

TableText == <<116, 97, 98, 108, 101>>

\* db.reader over a bytes.Reader: ReadAt fails unless all len bytes exist.
reader(off, len) ==
    IF off < 0 \/ off >= Len(file) \/ off + len > Len(file)
    THEN [st |-> "err"]
    ELSE [st |-> "ok", r |-> MkReader(SubSeq(file, off + 1, off + len))]

\* readPage's fetch of the page window.
PageReader(page) == reader((page - 1) * pageSize, pageSize)

\* An activation of readPage.  pc is "enter" before the page is fetched and
\* "cells" inside the loop over the cell pointers; i is the loop's index
\* (1-based), x the variable of the loop over the last cell's range (-1
\* outside of it), called the pages this activation has recursed into.
Frame(page) ==
    [page |-> page, pc |-> "enter", tag |-> 0, n |-> 0, ptrs |-> <<>>,
     right |-> 0, i |-> 1, x |-> -1, called |-> <<>>]

NoRet == [val |-> "none", from |-> Frame(0)]

\* readPage from the page-type tag to the cell pointer array.
ParseHeader(pr, page) ==
    LET pageOffset == IF page = 1 THEN 100 ELSE 0
        bTreePageType == u8(pr, pageOffset)
        numberOfCells == u16(pr, pageOffset + 3)
        interior == bTreePageType.st = "ok" /\ bTreePageType.val = WordOf(5)
        rightMostPointer == u32(pr, pageOffset + 8)
        ptrOffset == pageOffset + 8 + (IF interior THEN 4 ELSE 0)
        n == ToInt(numberOfCells.val)
    IN
    IF bTreePageType.st = "panic" \/ numberOfCells.st = "panic"
        THEN [st |-> "panic"]
    ELSE IF interior /\ rightMostPointer.st = "panic" THEN [st |-> "panic"]
    ELSE IF n > 0 /\ ~CanSlice(pr, ptrOffset + 2 * (n - 1), 2)
        THEN [st |-> "panic"]
    ELSE [st |-> "ok",
          tag |-> ToInt(bTreePageType.val),
          n |-> n,
          right |-> IF interior THEN ToInt(rightMostPointer.val) ELSE 0,
          ptrs |-> [i \in 1..n |->
                      ToInt(u16(pr, ptrOffset + 2 * (i - 1)).val)]]

\* A table-leaf cell: payload length, row identifier, payload.
LeafCell(pr, cellPointer) ==
    LET cellSize == varint(pr, cellPointer)
        rowId == IF cellSize.st = "ok" THEN varint(pr, cellSize.next)
                 ELSE cellSize
        payload == IF rowId.st = "ok"
                   THEN read(pr, rowId.next, ToInt(cellSize.val))
                   ELSE rowId
    IN IF payload.st = "ok"
       THEN [st |-> "ok", rowId |-> rowId.val, payload |-> payload.r]
       ELSE [st |-> "panic"]

\* A table-interior cell: the left child; the key is decoded and dropped.
InteriorCell(pr, cellPointer) ==
    LET leftMostPointer == u32(pr, cellPointer)
        key == varint(pr, cellPointer + 4)
    IN IF leftMostPointer.st = "ok" /\ key.st = "ok"
       THEN [st |-> "ok", left |-> ToInt(leftMostPointer.val)]
       ELSE [st |-> "panic"]

\* InteriorChild as src/database.go has it: the range loop for every cell,
\* and no check against the page being read.
InteriorChildEveryCell(page, i, n, x, left, right) ==
    LET c == IF x = -1 THEN left ELSE x IN
    IF c > right THEN [op |-> "next", child |-> 0, x |-> -1]
    ELSE [op |-> "call", child |-> c, x |-> c]

\* InteriorChild without the two "attempt to re-read own page" checks.
InteriorChildNoGuard(page, i, n, x, left, right) ==
    IF i = n
    THEN LET c == IF x = -1 THEN left ELSE x IN
         IF c > right THEN [op |-> "next", child |-> 0, x |-> -1]
         ELSE [op |-> "call", child |-> c, x |-> c]
    ELSE [op |-> "call", child |-> left, x |-> -1]

\* What readPage does with cell i of the n cells of table-interior page
\* `page`, x being the range loop's variable (-1: the loop has not begun):
\* recurse into a child, go on to the next cell, or fail.
InteriorChild(page, i, n, x, left, right) ==
    IF i = n
    THEN LET c == IF x = -1 THEN left ELSE x IN
         IF c > right THEN [op |-> "next", child |-> 0, x |-> -1]
         ELSE IF c = page THEN [op |-> "err", child |-> 0, x |-> -1]
         ELSE [op |-> "call", child |-> c, x |-> c]
    ELSE IF left = page THEN [op |-> "err", child |-> 0, x |-> -1]
         ELSE [op |-> "call", child |-> left, x |-> -1]

\* Propagates with the returned error dropped.
PropagatesNever(err) == FALSE

\* "if err := ...; err != nil { return err }" after a recursive readPage
\* and after cbCell.
Propagates(err) == err # "nil"

\* The callback OpenDatabase reads the schema table with.
SchemaCallback(val, tbls) ==
    IF Len(val) < 1 \/ val[1].kind # "string" THEN [st |-> "panic"]
    ELSE IF val[1].bytes # TableText THEN [st |-> "ok", tables |-> tbls]
    ELSE IF Len(val) < 5 \/ val[2].kind # "string"
            \/ val[4].kind # "uint64" \/ val[5].kind # "string"
        THEN [st |-> "panic"]
    ELSE [st |-> "ok",
          tables |-> (val[2].bytes :>
                        [rootPage |-> val[4].bits, Sql |-> val[5].bytes])
                     @@ tbls]

\* db.Tables()
Tables == DOMAIN tables

-----------------------------------------------------------------------------
(* Database images: the pages a file is built from, laid out as the file   *)
(* format prescribes (spec sections 3 and 6).                               *)

PageSz == 256

RECURSIVE Flatten(_)
Flatten(ss) == IF ss = <<>> THEN <<>> ELSE Head(ss) \o Flatten(Tail(ss))

Zeros(n) == [i \in 1..n |-> 0]

BytesBE(n, w) == [i \in 1..w |-> (n \div (256^(w - i))) % 256]

\* "index", "view"
IndexText == <<105, 110, 100, 101, 120>>

ViewText == <<118, 105, 101, 119>>

FileHeader == Magic \o BytesBE(PageSz, 2) \o Zeros(82)

Col(code, body) == [code |-> code, body |-> body]

TextCol(bs) == Col(13 + 2 * Len(bs), bs)

\* An integer column stored with serial type code (1, 2, 3 or 4).
IntCol(code, n) == Col(code, BytesBE(n, code))

RecordBytes(cols) ==
    LET types == Flatten([i \in 1..Len(cols) |->
                            EncodeVarint(WordOf(cols[i].code))])
    IN <<1 + Len(types)>> \o types
           \o Flatten([i \in 1..Len(cols) |-> cols[i].body])

\* A row of a table leaf.  rowId is a 64-bit word.  size is the payload length the cell declares, -1
\* for the true one.  kind, name, root, sql are what a schema row says.
Row(rowId, cols) ==
    [rowId |-> rowId, cols |-> cols, size |-> -1,
     kind |-> <<>>, name |-> <<>>, root |-> 0, sql |-> <<>>]

SchemaRow(rowId, kind, name, rootCode, root, sql) ==
    [rowId |-> rowId, size |-> -1,
     cols |-> <<TextCol(kind), TextCol(name), TextCol(name),
                IntCol(rootCode, root), TextCol(sql)>>,
     kind |-> kind, name |-> name, root |-> root, sql |-> sql]

LeafCellBytes(row) ==
    LET rec == RecordBytes(row.cols) IN
    EncodeVarint(WordOf(IF row.size = -1 THEN Len(rec) ELSE row.size))
        \o EncodeVarint(row.rowId) \o rec

InteriorCellBytes(left, key) == BytesBE(left, 4) \o EncodeVarint(WordOf(key))

\* Page images.  ptrAt is 0, or the value every cell pointer is given in
\* place of the cell's true offset.
Leaf(rows) ==
    [tag |-> 13, lefts |-> <<>>, right |-> 0, rows |-> rows, ptrAt |-> 0]

Interior(lefts, right) ==
    [tag |-> 5, lefts |-> lefts, right |-> right, rows |-> <<>>, ptrAt |-> 0]

Tagged(tag) ==
    [tag |-> tag, lefts |-> <<>>, right |-> 0, rows |-> <<>>, ptrAt |-> 0]

PageCells(pg) ==
    IF pg.tag = 5
    THEN [i \in 1..Len(pg.lefts) |-> InteriorCellBytes(pg.lefts[i], i)]
    ELSE [i \in 1..Len(pg.rows) |-> LeafCellBytes(pg.rows[i])]

PageBytes(pg, pageNo) ==
    LET cells == PageCells(pg)
        n == Len(cells)
        head == (IF pageNo = 1 THEN FileHeader ELSE <<>>)
                  \o <<pg.tag, 0, 0>> \o BytesBE(n, 2) \o <<0, 0, 0>>
                  \o (IF pg.tag = 5 THEN BytesBE(pg.right, 4) ELSE <<>>)
        base == Len(head) + 2 * n
        at(i) == IF pg.ptrAt # 0 THEN pg.ptrAt
                 ELSE base + Len(Flatten(SubSeq(cells, 1, i - 1)))
        body == head \o Flatten([i \in 1..n |-> BytesBE(at(i), 2)])
                     \o Flatten(cells)
    IN body \o Zeros(PageSz - Len(body))

FileBytes(pages) == Flatten([p \in 1..Len(pages) |-> PageBytes(pages[p], p)])

-----------------------------------------------------------------------------
(* OpenDatabase and Table.Read as a state machine ("Spec") *)

MaxDepth == 6

Top == stack[Len(stack)]

Walking == phase \in {"opening", "reading"} /\ stack # <<>>

\* An outcome of a step that changes nothing but what it names.
Keep(top) ==
    [frame |-> top, child |-> 0, val |-> "nil", rowIds |-> rowIds,
     tables |-> tables, delivered |-> delivered]

Crash(top, why) == [kind |-> "crash", val |-> why] @@ Keep(top)

Return(top, v) == [kind |-> "return", val |-> v] @@ Keep(top)

Stay(top, f) == [kind |-> "stay", frame |-> f] @@ Keep(top)

Call(top, f, child) ==
    [kind |-> "call", frame |-> f, child |-> child] @@ Keep(top)

\* The step's effect: a panic ends the process, a return pops the
\* activation, a call pushes one (a Go stack that cannot grow further is a
\* fatal error).
Apply(o) ==
    LET under == SubSeq(stack, 1, Len(stack) - 1) IN
    /\ rowIds' = o.rowIds
    /\ tables' = o.tables
    /\ delivered' = o.delivered
    /\ CASE o.kind = "crash" ->
              /\ phase' = "crashed"
              /\ result' = o.val
              /\ UNCHANGED <<stack, ret>>
         [] o.kind = "return" ->
              /\ stack' = under
              /\ ret' = [val |-> o.val, from |-> o.frame]
              /\ UNCHANGED <<phase, result>>
         [] o.kind = "stay" ->
              /\ stack' = Append(under, o.frame)
              /\ ret' = NoRet
              /\ UNCHANGED <<phase, result>>
         [] o.kind = "call" ->
              IF Len(stack) >= MaxDepth
              THEN /\ phase' = "crashed"
                   /\ result' = "stack overflow"
                   /\ UNCHANGED <<stack, ret>>
              ELSE /\ stack' = Append(Append(under, o.frame), Frame(o.child))
                   /\ ret' = NoRet
                   /\ UNCHANGED <<phase, result>>
    /\ UNCHANGED <<file, img, pageSize, reading, probe>>

\* OpenDatabase up to the call of schemaTable.Read.
OpenDatabase ==
    /\ phase = "init"
    /\ LET hdr == reader(0, 100) IN
       IF hdr.st = "err" \/
          (hdr.st = "ok" /\ SubSeq(hdr.r.buf, 1, 16) # Magic)
       THEN /\ phase' = "failed"
            /\ result' = IF hdr.st = "err" THEN "read error" ELSE "bad magic"
            /\ UNCHANGED <<pageSize, stack, rowIds>>
       ELSE /\ pageSize' = ToInt(u16(hdr.r, 16).val)
            /\ phase' = "opening"
            /\ stack' = <<Frame(1)>>
            /\ rowIds' = {}
            /\ UNCHANGED result
    /\ UNCHANGED <<file, img, tables, ret, delivered, reading, probe>>

\* db.Table(name) and Table.Read up to the call of readPage.
TableRead(name) ==
    /\ phase = "opened"
    /\ name \in Tables
    /\ phase' = "reading"
    /\ reading' = name
    /\ stack' = <<Frame(ToInt(tables[name].rootPage))>>
    /\ rowIds' = {}
    /\ delivered' = <<>>
    /\ result' = "none"
    /\ ret' = NoRet
    /\ UNCHANGED <<file, img, pageSize, tables, probe>>

\* readPage from its entry to the switch on the page type.
ReadPageEnter ==
    /\ Walking /\ ret.val = "none" /\ Top.pc = "enter"
    /\ LET pr == PageReader(Top.page)
           h == ParseHeader(pr.r, Top.page)
       IN Apply(
            IF pr.st = "err" THEN Return(Top, "read error")
            ELSE IF h.st = "panic" THEN Crash(Top, "panic")
            ELSE LET f == [Top EXCEPT !.pc = "cells", !.tag = h.tag,
                             !.n = h.n, !.ptrs = h.ptrs, !.right = h.right]
                 IN IF h.tag \in {0, 2, 10} THEN Return(Top, "nil")
                    ELSE IF h.tag \in {5, 13} THEN Stay(Top, f)
                    ELSE Return(Top, "unknown bTreePageType"))

\* case 0x05: one step of the loop over the cells of a table-interior page.
ReadInteriorCell ==
    /\ Walking /\ ret.val = "none" /\ Top.pc = "cells" /\ Top.tag = 5
    /\ LET c == InteriorCell(PageReader(Top.page).r, Top.ptrs[Top.i])
           d == InteriorChild(Top.page, Top.i, Top.n, Top.x, c.left, Top.right)
       IN Apply(
            IF Top.i > Top.n THEN Return(Top, "nil")
            ELSE IF c.st = "panic" THEN Crash(Top, "panic")
            ELSE IF d.op = "err"
                THEN Return(Top, "attempt to re-read own page")
            ELSE IF d.op = "next"
                THEN Stay(Top, [Top EXCEPT !.i = @ + 1, !.x = -1])
            ELSE Call(Top, [Top EXCEPT !.x = d.x,
                                !.called = Append(@, d.child)], d.child))

\* The recursive readPage has returned into the loop of case 0x05.
ChildReturned ==
    /\ Walking /\ ret.val # "none"
    /\ Apply(
         IF Propagates(ret.val) THEN Return(Top, ret.val)
         ELSE IF Top.x >= 0 THEN Stay(Top, [Top EXCEPT !.x = @ + 1])
         ELSE Stay(Top, [Top EXCEPT !.i = @ + 1]))

\* case 0x0d: one step of the loop over the cells of a table-leaf page: the
\* cell, Table.Read's cell callback, and the row callback cb, which returns
\* cbErr.  OpenDatabase's callback fills the catalog and returns nil.
ReadLeafCell(cbErr) ==
    /\ Walking /\ ret.val = "none" /\ Top.pc = "cells" /\ Top.tag = 13
    /\ phase = "opening" => cbErr = "nil"
    /\ LET c == LeafCell(PageReader(Top.page).r, Top.ptrs[Top.i])
           d == DecodeRecord(c.payload)
           s == SchemaCallback(d.values, tables)
           next == [Top EXCEPT !.i = @ + 1]
           seen == [rowIds |-> rowIds \cup {c.rowId}]
           row == [page |-> Top.page, cell |-> Top.i, values |-> d.values,
                   err |-> cbErr]
           got == [delivered |-> Append(delivered, row)]
       IN Apply(
            IF Top.i > Top.n THEN Return(Top, "nil")
            ELSE IF c.st = "panic" THEN Crash(Top, "panic")
            ELSE IF c.rowId \in rowIds THEN Stay(Top, next)
            ELSE IF d.st = "panic" THEN seen @@ Crash(Top, "panic")
            ELSE IF d.st = "err" THEN seen @@ Return(Top, d.err)
            ELSE IF phase = "opening"
                THEN IF s.st = "panic" THEN seen @@ Crash(Top, "panic")
                     ELSE [tables |-> s.tables] @@ got @@ seen
                            @@ Stay(Top, next)
            ELSE IF Propagates(cbErr)
                THEN got @@ seen @@ Return(Top, cbErr)
            ELSE got @@ seen @@ Stay(Top, next))

\* The outermost readPage has returned: Table.Read returns its value, and
\* OpenDatabase returns the database or the error.
ReadReturns ==
    /\ phase \in {"opening", "reading"} /\ stack = <<>> /\ ret.val # "none"
    /\ result' = ret.val
    /\ phase' = IF phase = "opening" /\ ret.val # "nil" THEN "failed"
                ELSE "opened"
    /\ ret' = NoRet
    /\ UNCHANGED <<file, img, pageSize, tables, stack, rowIds, delivered,
                   reading, probe>>

-----------------------------------------------------------------------------
(* The files OpenDatabase is given *)

MaxCells == 3

\* The page numbers of the 4-page images, and one past the last page.
PagePtrs == 1..5
MaxRows == 3

NameT == <<116>>
NameU == <<117>>
SqlText == <<115, 113>>

\* Rows of user tables.
RowInt(id, n) == Row(WordOf(id), <<IntCol(1, n)>>)

LeafA == Leaf(<<RowInt(1, 7), Row(WordOf(2), <<TextCol(<<120>>), Col(0, <<>>)>>)>>)

LeafB == Leaf(<<Row(WordOf(3), <<IntCol(2, 300)>>), RowInt(1, 9)>>)

\* A leaf of k rows with the row identifiers 1..k.
LeafOf(k) == Leaf([j \in 1..k |-> RowInt(j, 10 + j)])

WellFormedLeaves ==
    {LeafOf(k) : k \in 0..MaxRows}
    \cup {Leaf(<<RowInt(1, 7), RowInt(1, 8)>>),
          Leaf(<<RowInt(2, 7), RowInt(1, 8), RowInt(2, 9)>>),
          Leaf(<<Row({55}, <<IntCol(1, 7)>>), Row({56}, <<IntCol(1, 8)>>)>>),
          Leaf(<<Row(0..63, <<IntCol(1, 7)>>)>>)}

\* A leaf with a floating-point column (serial type 7).
FloatLeaf == Leaf(<<Row(WordOf(1), <<Col(7, Zeros(8))>>), RowInt(2, 8)>>)

\* Leaves whose cells do not fit what they declare.
DamagedLeaves ==
    {[LeafOf(1) EXCEPT !.ptrAt = 65535],
     [LeafOf(1) EXCEPT !.ptrAt = PageSz - 1],
     Leaf(<<[RowInt(1, 7) EXCEPT !.size = 1000]>>),
     Leaf(<<Row(WordOf(1), <<Col(1, <<>>)>>)>>),
     Leaf(<<Row(WordOf(1), <<Col(10, <<>>)>>)>>)}

Interiors ==
    {Interior(lefts, right) :
        lefts \in UNION {[1..n -> PagePtrs] : n \in 1..MaxCells},
        right \in PagePtrs}

SchemaOf(rows) == Leaf(rows)

TableRow(id, name, rootCode, root) ==
    SchemaRow(WordOf(id), TableText, name, rootCode, root, SqlText)

Schemas ==
    {SchemaOf(<<TableRow(1, NameT, 1, r)>>) : r \in {0} \cup PagePtrs}
    \cup
    {SchemaOf(<<TableRow(1, NameT, 1, 2),
                SchemaRow(WordOf(2), IndexText, <<105>>, 1, 3, SqlText),
                SchemaRow(WordOf(3), ViewText, <<118>>, 1, 0, SqlText),
                TableRow(4, NameU, 2, 3)>>),
     SchemaOf(<<TableRow(1, NameT, 1, 2), TableRow(1, NameU, 1, 3)>>),
     SchemaOf(<<TableRow(1, NameT, 3, 2)>>),
     SchemaOf(<<TableRow(1, NameT, 1, 2), TableRow(2, NameT, 1, 3)>>),
     SchemaOf(<<Row(WordOf(1), <<IntCol(1, 1), TextCol(NameT)>>)>>),
     SchemaOf(<<Row(WordOf(1), <<TextCol(TableText), TextCol(NameT)>>)>>),
     SchemaOf(<<Row(WordOf(1), <<TextCol(TableText), TextCol(NameT),
                  TextCol(NameT), Col(0, <<>>), TextCol(SqlText)>>)>>),
     SchemaOf(<<>>)}

SchemaT == SchemaOf(<<TableRow(1, NameT, 1, 2)>>)

Images ==
    {<<SchemaT, p2, p3, LeafB>> :
        p2 \in Interiors,
        p3 \in {LeafA, Interior(<<2>>, 2), Interior(<<4>>, 4)}}
    \cup
    {<<SchemaT, p2, LeafA, p4>> :
        p2 \in WellFormedLeaves \cup DamagedLeaves
                \cup {FloatLeaf, Tagged(0), Tagged(2), Tagged(10), Tagged(7),
                      Interior(<<0>>, 3), Interior(<<3, 4>>, 0),
                      Interior(<<4, 3, 3>>, 4), Interior(<<3, 4, 2>>, 4),
                      Interior(<<3, 2, 4>>, 4), Interior(<<4, 3, 1>>, 1)},
        p4 \in {LeafB, Tagged(10)}}
    \cup
    {<<s, LeafA, Interior(<<2, 4>>, 4), LeafB>> : s \in Schemas}
    \cup
    {<<Interior(<<2>>, 2), SchemaT, LeafA>>}

\* The file of an image, whole or damaged: cut short, with another magic
\* string, or declaring a page size of 0.
Damaged(bytes, how) ==
    CASE how = "none" -> bytes
      [] how = "short" -> SubSeq(bytes, 1, 99)
      [] how = "magic" -> [bytes EXCEPT ![16] = 1]
      [] how = "pagesize" -> [bytes EXCEPT ![17] = 0, ![18] = 0]
      [] how = "truncated" -> SubSeq(bytes, 1, Len(bytes) - 1)

Init ==
    /\ img \in Images
    /\ \E how \in {"none", "short", "magic", "pagesize", "truncated"} :
          /\ how # "none" => img = <<SchemaT, LeafA, LeafA, LeafB>>
          /\ file = Damaged(FileBytes(img), how)
    /\ pageSize = 0
    /\ tables = <<>>
    /\ phase = "init"
    /\ stack = <<>>
    /\ ret = NoRet
    /\ rowIds = {}
    /\ delivered = <<>>
    /\ result = "none"
    /\ reading = <<>>
    /\ probe = [kind |-> "none"]

Next ==
    \/ OpenDatabase
    \/ \E name \in Tables : TableRead(name)
    \/ ReadPageEnter
    \/ ReadInteriorCell
    \/ ChildReturned
    \/ \E cbErr \in {"nil", "callback error"} : ReadLeafCell(cbErr)
    \/ ReadReturns

Spec == Init /\ [][Next]_vars

-----------------------------------------------------------------------------
(* Properties of OpenDatabase and Table.Read *)

IsPrefix(s, t) == Len(s) <= Len(t) /\ SubSeq(t, 1, Len(s)) = s

\* The children the format's layout gives a table-interior page image, in
\* the order C3 states: the left child of each cell but the last, then every
\* page number from the last cell's left child to the right-most pointer.
ExpectedChildren(pg) ==
    LET n == Len(pg.lefts)
        last == pg.lefts[n]
    IN SubSeq(pg.lefts, 1, n - 1)
         \o [k \in 1..(pg.right - last + 1) |-> last + k - 1]

InteriorFrame(f) ==
    f.pc = "cells" /\ f.tag = 5 /\ f.page \in 1..Len(img)

\* C3: an activation of readPage on a table-interior page recurses into the
\* left child of each of its first n-1 cells, in cell-pointer order, then
\* into every page from the last cell's left child up to the right-most
\* pointer, ascending, and into no other page: the pages it has recursed
\* into are always a prefix of that list, and the whole list when it
\* returns nil.
InteriorFanOut ==
    /\ \A k \in 1..Len(stack) :
          InteriorFrame(stack[k]) =>
              IsPrefix(stack[k].called, ExpectedChildren(img[stack[k].page]))
    /\ (ret.val = "nil" /\ InteriorFrame(ret.from)) =>
          ret.from.called = ExpectedChildren(img[ret.from.page])

\* An interior page of three cells has been walked to its end: two left
\* children in cell order, then a range of more than one page.
InteriorFanOutDone ==
    /\ ret.val = "nil"
    /\ InteriorFrame(ret.from)
    /\ ret.from.n = 3
    /\ Len(ret.from.called) >= 4
    /\ ret.from.called[1] # ret.from.called[2]

\* C4: an error returned by the row callback or by the cell callback stops
\* the traversal at once: while it travels up no callback is invoked, every
\* step pops one activation of readPage, and Read returns that same error;
\* the rows delivered before stay delivered.
ErrorStep ==
    (phase \in {"opening", "reading"} /\ ret.val \notin {"none", "nil"}) =>
        /\ delivered' = delivered
        /\ IF stack = <<>>
           THEN result' = ret.val /\ phase' \in {"opened", "failed"}
           ELSE /\ stack' = SubSeq(stack, 1, Len(stack) - 1)
                /\ ret'.val = ret.val

CallbackFailureIsLast ==
    \A k \in 1..Len(delivered) :
        delivered[k].err # "nil" =>
            /\ k = Len(delivered)
            /\ IF phase = "reading" THEN ret.val = delivered[k].err
               ELSE phase = "opened" /\ result = delivered[k].err

ErrorStopsTraversal == [][ErrorStep /\ CallbackFailureIsLast']_vars

\* The row callback has failed on the third row, below an interior page
\* whose loop still had children to visit.
CallbackErrorUnwinding ==
    /\ phase = "reading"
    /\ ret.val = "callback error"
    /\ Len(delivered) >= 3
    /\ stack # <<>>
    /\ Len(Top.called) < Len(ExpectedChildren(img[Top.page]))

\* C9: when the next child of a table-interior page p is p itself, readPage
\* returns the corruption error there, and no activation of readPage(p) is
\* ever directly inside readPage(p).
SelfNext ==
    /\ Walking /\ ret.val = "none" /\ InteriorFrame(Top)
    /\ LET e == ExpectedChildren(img[Top.page]) IN
          /\ Len(Top.called) < Len(e)
          /\ e[Len(Top.called) + 1] = Top.page

NoSelfCall(st) == \A k \in 1..(Len(st) - 1) : st[k + 1].page # st[k].page

CycleGuardStep ==
    /\ SelfNext =>
          /\ stack' = SubSeq(stack, 1, Len(stack) - 1)
          /\ ret'.val = "attempt to re-read own page"
    /\ NoSelfCall(stack')

CycleGuard == [][CycleGuardStep]_vars

\* The guard has fired inside the last cell's range, after a child was read.
CycleGuardFired ==
    /\ ret.val = "attempt to re-read own page"
    /\ ret.from.called # <<>>
    /\ ret.from.i = ret.from.n

\* The rows of the schema table of an image whose page 1 is a leaf.
TableRows == {j \in 1..Len(img[1].rows) : img[1].rows[j].kind = TableText}

\* C1: after OpenDatabase has succeeded the catalog holds the names of the
\* schema rows of kind "table" and no other, each with the root page and
\* the SQL text of a row of that name.
CatalogMatchesSchema ==
    (phase \in {"opened", "reading"} /\ img[1].tag = 13) =>
        /\ Tables = {img[1].rows[j].name : j \in TableRows}
        /\ \A name \in Tables :
              \E j \in TableRows :
                  /\ img[1].rows[j].name = name
                  /\ tables[name].rootPage = WordOf(img[1].rows[j].root)
                  /\ tables[name].Sql = img[1].rows[j].sql

\* C2: a Read of a table whose root is one well-formed table-leaf page of k
\* cells, whatever their row identifiers, with a row callback that never
\* fails, invokes the callback k times, once per cell in cell-pointer order.
LeafOnlyRowCount ==
    (phase = "opened" /\ reading # <<>>
        /\ ToInt(tables[reading].rootPage) \in 1..Len(img)
        /\ img[ToInt(tables[reading].rootPage)] \in WellFormedLeaves
        /\ \A k \in 1..Len(delivered) : delivered[k].err = "nil") =>
        LET rows == img[ToInt(tables[reading].rootPage)].rows IN
        [k \in 1..Len(delivered) |-> delivered[k].cell]
            = [k \in 1..Len(rows) |-> k]

\* What the code keeps of C2: one invocation per cell whose row identifier
\* differs from those of the cells before it, in cell-pointer order, for
\* row identifiers below 2^56.
FirstOccurrences(rows) ==
    {k \in 1..Len(rows) : \A j \in 1..(k - 1) : rows[j].rowId # rows[k].rowId}

LeafOnlyDistinctRowCount ==
    (phase = "opened" /\ reading # <<>>
        /\ ToInt(tables[reading].rootPage) \in 1..Len(img)
        /\ img[ToInt(tables[reading].rootPage)] \in WellFormedLeaves
        /\ \A k \in 1..Len(delivered) : delivered[k].err = "nil") =>
        LET rows == img[ToInt(tables[reading].rootPage)].rows IN
        (\A k \in 1..Len(rows) : \A b \in rows[k].rowId : b < 56) =>
            /\ {delivered[k].cell : k \in 1..Len(delivered)}
                  = FirstOccurrences(rows)
            /\ \A k \in 1..(Len(delivered) - 1) :
                  delivered[k].cell < delivered[k + 1].cell

\* C8: no input makes OpenDatabase or Table.Read crash.
NeverCrashes == phase # "crashed"

\* C10: the recursion depth of readPage never exceeds the number of pages
\* of the file.
DepthWithinPages == Len(stack) <= Len(img)

-----------------------------------------------------------------------------
(* Single calls of varint ("SpecVarint") *)

MaxPad == 2
MaxRun == 11

VarintBits == {0, 6, 7, 13, 14, 55, 56, 63}

PadBytes(n) == [i \in 1..n |-> 255]

\* A value encoded at offset off, alone or followed by one more byte.
RoundTripInputs ==
    {[kind |-> "roundtrip", v |-> v, off |-> off,
      r |-> MkReader(PadBytes(off) \o EncodeVarint(v) \o tail),
      done |-> FALSE]
        : v \in SUBSET VarintBits, off \in 0..MaxPad,
          tail \in {<<>>, <<255>>}}

\* Runs of continuation bytes, with or without a terminating byte, in a
\* slice whose length is its capacity (slack 0) or one less (slack 1).
RawInputs ==
    {[kind |-> "raw", v |-> {}, off |-> off,
      r |-> [buf |-> PadBytes(off) \o [i \in 1..n |-> c] \o tail,
             len |-> off + n + Len(tail) - slack],
      done |-> FALSE]
        : c \in {128, 255}, n \in 0..MaxRun, off \in 0..MaxPad,
          tail \in {<<>>, <<1>>}, slack \in {0, 1}}

IdleWalker ==
    /\ file = <<>>
    /\ img = <<>>
    /\ pageSize = 0
    /\ tables = <<>>
    /\ phase = "idle"
    /\ stack = <<>>
    /\ ret = NoRet
    /\ rowIds = {}
    /\ delivered = <<>>
    /\ result = "none"
    /\ reading = <<>>

VarintInit ==
    /\ IdleWalker
    /\ probe \in {p \in RoundTripInputs \cup RawInputs : p.r.len >= 0}

CallVarint ==
    /\ probe.kind \in {"roundtrip", "raw"}
    /\ ~probe.done
    /\ probe' = [probe EXCEPT !.done = TRUE]
                    @@ [out |-> varint(probe.r, probe.off)]
    /\ UNCHANGED walkerVars

VarintNext == CallVarint

SpecVarint == VarintInit /\ [][VarintNext]_vars

VarintCalled == probe.kind \in {"roundtrip", "raw"} /\ probe.done

\* C6: encoding v and then calling varint at the start of the encoding
\* returns v and the offset just past the encoding.
VarintRoundTrip ==
    (VarintCalled /\ probe.kind = "roundtrip") =>
        /\ probe.out.st = "ok"
        /\ probe.out.val = probe.v
        /\ probe.out.next = probe.off + EncodedLen(probe.v)

\* The part of C6 the code keeps: values below 2^56 (encodings of 1 to 8
\* bytes) round-trip.
VarintRoundTripShort ==
    (VarintCalled /\ probe.kind = "roundtrip"
        /\ \A k \in probe.v : k < 56) =>
        /\ probe.out.st = "ok"
        /\ probe.out.val = probe.v
        /\ probe.out.next = probe.off + EncodedLen(probe.v)

\* The index of the first byte at or after off without the high bit, among
\* the first 9 bytes and inside the slice; 0 if there is none.
Terminator(r, off) ==
    LET T == {i \in 0..8 : off + i < r.len /\
                 (r.buf[off + i + 1] < 128 \/ i = 8) /\
                 \A j \in 0..(i - 1) : r.buf[off + j + 1] >= 128}
    IN IF T = {} THEN -1 ELSE CHOOSE i \in T : TRUE

\* C7: varint consumes at most 9 bytes, the 9th always terminating, and
\* returns the sentinel (0, -1), with no read outside the slice, when the
\* slice ends before a terminating byte.
VarintAtMostNine ==
    VarintCalled =>
        /\ probe.out.st = "ok"
        /\ IF Terminator(probe.r, probe.off) = -1
           THEN probe.out.val = {} /\ probe.out.next = -1
           ELSE probe.out.next =
                    probe.off + Terminator(probe.r, probe.off) + 1

-----------------------------------------------------------------------------
(* Single calls of the record decoder on a one-column record ("SpecSerial") *)

MaxSerial == 21

SerialBytes == {0, 1, 127, 128, 255}

SerialCodes == 0..MaxSerial

\* The width of the body a serial type code stands for (0 for the codes
\* without a body and for the codes the format does not define).
SerialWidth(code) ==
    CASE code = 1 -> 1 [] code = 2 -> 2 [] code = 3 -> 3 [] code = 4 -> 4
      [] code = 5 -> 6 [] code = 6 -> 8 [] code = 7 -> 8
      [] code >= 12 /\ code % 2 = 0 -> (code - 12) \div 2
      [] code >= 13 /\ code % 2 = 1 -> (code - 13) \div 2
      [] OTHER -> 0

BodyOf(w, first, fill, last) ==
    [i \in 1..w |-> IF i = 1 THEN first ELSE IF i = w THEN last ELSE fill]

\* A record of one column: header length, the serial type, the body.
OneColumn(code, body) ==
    <<1 + EncodedLen(WordOf(code))>> \o EncodeVarint(WordOf(code)) \o body

SerialInputs ==
    {[kind |-> "serial", code |-> code,
      body |-> BodyOf(SerialWidth(code), a, b, c), done |-> FALSE]
        : code \in SerialCodes, a \in SerialBytes, b \in SerialBytes,
          c \in SerialBytes}

SerialInit ==
    /\ IdleWalker
    /\ probe \in SerialInputs

CallDecodeRecord ==
    /\ probe.kind = "serial"
    /\ ~probe.done
    /\ probe' = [probe EXCEPT !.done = TRUE]
                    @@ [out |-> DecodeRecord(
                                    MkReader(OneColumn(probe.code, probe.body)))]
    /\ UNCHANGED walkerVars

SerialNext == CallDecodeRecord

SpecSerial == SerialInit /\ [][SerialNext]_vars

\* The value the serial type table documents for a code and its body.  An
\* integer is its 64-bit two's-complement pattern, which bit 63 makes negative.
DocInt(body) ==
    LET w == BigEndian(body)
        top == 8 * Len(body) - 1
    IN [kind |-> "int64",
        bits |-> IF top \in w THEN w \cup (top..63) ELSE w,
        bytes |-> <<>>]

Documented(code, body) ==
    CASE code = 0 -> [kind |-> "null", bits |-> {}, bytes |-> <<>>]
      [] code \in 1..6 -> DocInt(body)
      [] code = 8 -> DocInt(<<0>>)
      [] code = 9 -> DocInt(<<1>>)
      [] code >= 12 /\ code % 2 = 0 ->
            [kind |-> "blob", bits |-> {}, bytes |-> body]
      [] code >= 13 /\ code % 2 = 1 ->
            [kind |-> "text", bits |-> {}, bytes |-> body]

\* A Go value is the documented value: the same kind of value, and for an
\* integer the same number (a uint64 is never negative).
Denotes(go, doc) ==
    CASE doc.kind = "null" -> go.kind = "nil"
      [] doc.kind = "int64" ->
            go.kind = "uint64" /\ 63 \notin doc.bits /\ go.bits = doc.bits
      [] doc.kind = "blob" -> go.kind = "bytes" /\ go.bytes = doc.bytes
      [] doc.kind = "text" -> go.kind = "string" /\ go.bytes = doc.bytes

SerialCalled == probe.kind = "serial" /\ probe.done

HeaderLen(code) == 1 + EncodedLen(WordOf(code))

\* C5: for every code of the serial type table and every body of its width
\* the decoder yields the documented value and advances the body cursor by
\* the documented width.
SerialDecodeMatchesTable ==
    (SerialCalled /\ probe.code \notin {7, 10, 11}) =>
        /\ probe.out.st = "ok"
        /\ Len(probe.out.values) = 1
        /\ Denotes(probe.out.values[1], Documented(probe.code, probe.body))
        /\ probe.out.next = HeaderLen(probe.code) + SerialWidth(probe.code)

\* What the code does keep of C5: the widths, NULL, the constants, blobs,
\* text, and the integers of 1, 2, 4 and 8 bytes whose sign bit is clear.
SerialDecodeUnsignedPart ==
    (SerialCalled /\ probe.code \notin {3, 5, 7, 10, 11}
        /\ (probe.code \in {1, 2, 4, 6} => probe.body[1] < 128)) =>
        /\ probe.out.st = "ok"
        /\ Len(probe.out.values) = 1
        /\ Denotes(probe.out.values[1], Documented(probe.code, probe.body))
        /\ probe.out.next = HeaderLen(probe.code) + SerialWidth(probe.code)

=============================================================================
